---- MODULE Spec2Model ----
(***************************************************************************)
(* Generation orchestration pipeline of rko-takeaway-studio: one           *)
(* generations row, the orchestrator generateTakeaway that drives it       *)
(* through queued / processing / rendering, the guardrail checks, the      *)
(* retry decision, and the POST /api/render/[id] route that finishes it.   *)
(*                                                                         *)
(* Text is modelled as a sequence of fragments.  An error message is a     *)
(* sequence of phrases; a regular expression of isRetriableError matches   *)
(* a message when one of its phrases is the pattern's phrase.  Plan and    *)
(* script text is a sequence of tokens: the token "financial" is a piece   *)
(* of text that the pattern of 'Financial figures' matches, and so on;     *)
(* the token "plain" is text no pattern matches.                           *)
(***************************************************************************)
EXTENDS Integers, Sequences, FiniteSets, TLC

\* ---------------------------------------------------------------- bounds
MaxTextLen == 1
MaxRenderRequests == 2
MaxContentLen == 3
MaxChunks == 4
MaxLimit == 4
MaxSim == 2
MaxGenRequests == 3
MaxCredits == 3
MaxAmount == 2
MaxVoters == 2
MaxVoteRequests == 2
MaxRetriesOption == 3

\* ------------------------------------------------------ program constants
MAX_RETRIES == 3
NumPatterns == 5

\* a text column or variable that holds null
Null == <<"null">>

PROHIBITED_PATTERNS ==
  << [pattern |-> "financial", description |-> "Financial figures"],
     [pattern |-> "quarter", description |-> "Quarterly projections"],
     [pattern |-> "competitor", description |-> "Competitor mentions"],
     [pattern |-> "forward", description |-> "Forward-looking statements"],
     [pattern |-> "guarantee", description |-> "Guarantees"] >>

retriablePatterns ==
  {"timeout", "ECONNRESET", "ECONNREFUSED", "rate limit", "too many requests",
   "503", "502", "500", "network", "temporarily unavailable"}

\* ------------------------------------------------------------------ errors
AppError(name, message) == [name |-> name, message |-> message]

GuardrailViolation(message) == AppError("GuardrailViolation", message)

GenerationError(message) == AppError("GenerationError", message)

Error(message) == AppError("Error", message)

NoError == AppError("none", <<>>)

MediaRenderError(message) == AppError("MediaRenderError", message)

WillRetry == GenerationError(<<"Generation failed, retrying...">>)

\* isRetriableError: error.message || error.toString(), tested against the list
isRetriableError(error) ==
  LET errorMessage == IF error.message = <<>> THEN <<error.name>> ELSE error.message
  IN  \E i \in DOMAIN errorMessage : errorMessage[i] \in retriablePatterns

\* ------------------------------------------------- environment's answers
\* messages of errors thrown by the providers (LLM, embedding, search)
ProviderErrors == {<<"timeout">>, <<"invalid api key">>}

\* what the LLM writes after "BLOCKED:" / "VIOLATION:"
ReasonTexts == {<<>>, <<"off-brand">>, <<"cites", "500">>}

\* the tokens the generated texts are drawn from: clean text, a match of the
\* first pattern of the list, a match of the last one
SampleTokens == {"plain", PROHIBITED_PATTERNS[1].pattern, PROHIBITED_PATTERNS[NumPatterns].pattern}

RECURSIVE TextsOfLen(_)
TextsOfLen(n) ==
  IF n = 0 THEN {<<>>}
  ELSE {Append(t, k) : t \in TextsOfLen(n - 1), k \in SampleTokens}

\* texts of 1..MaxTextLen tokens
Texts == UNION {TextsOfLen(n) : n \in 1..MaxTextLen}

Thrown(e) == [kind |-> "throws", error |-> Error(e), text |-> <<>>]

Answer(t) == [kind |-> "text", error |-> NoError, text |-> t]

ClassifierAnswers ==
  {Thrown(e) : e \in ProviderErrors} \cup {Answer(<<"ALLOWED">>)}
    \cup {Answer(<<"BLOCKED:">> \o r) : r \in ReasonTexts}

ValidatorAnswers ==
  {Thrown(e) : e \in ProviderErrors} \cup {Answer(<<"APPROVED">>)}
    \cup {Answer(<<"VIOLATION:">> \o r) : r \in ReasonTexts}

\* ---------------------------------------------------------------- guardrails
patternTest(p, text) == \E i \in DOMAIN text : text[i] = PROHIBITED_PATTERNS[p].pattern

\* variant of patternLoop: the loop stops one pattern short of the list's end
RECURSIVE patternLoopStopsEarly(_, _)
patternLoopStopsEarly(text, p) ==
  IF p >= NumPatterns THEN 0
  ELSE IF patternTest(p, text) THEN p
  ELSE patternLoopStopsEarly(text, p + 1)

\* variant of patternLoop: the list is walked from its last pattern to its first
RECURSIVE patternLoopFromLast(_, _)
patternLoopFromLast(text, p) ==
  IF p > NumPatterns THEN 0
  ELSE IF patternTest(NumPatterns + 1 - p, text) THEN NumPatterns + 1 - p
  ELSE patternLoopFromLast(text, p + 1)

\* for (const { pattern, description } of PROHIBITED_PATTERNS) if (pattern.test(text)) ...
\* the index of the first pattern of the list that matches, 0 when none does
RECURSIVE patternLoop(_, _)
patternLoop(text, p) ==
  IF p > NumPatterns THEN 0
  ELSE IF patternTest(p, text) THEN p
  ELSE patternLoop(text, p + 1)

Returned(llmCalled) == [threw |-> FALSE, error |-> NoError, llmCalled |-> llmCalled]

Raised(e, llmCalled) == [threw |-> TRUE, error |-> e, llmCalled |-> llmCalled]

\* result.replace(tag, '').trim() || fallback
reasonOf(text, fallback) == IF Tail(text) = <<>> THEN <<fallback>> ELSE Tail(text)

\* variant of llmStage: a failing LLM call blocks (fail-closed)
llmStageFailClosed(llm) ==
  IF llm.kind = "throws" THEN Raised(GuardrailViolation(llm.error.message), TRUE)
  ELSE IF Head(llm.text) = "VIOLATION:"
       THEN Raised(GuardrailViolation(reasonOf(llm.text, "Content policy violation")), TRUE)
       ELSE Returned(TRUE)

\* the try / catch around the LLM validation call of validatePlan / validateScript
llmStage(llm) ==
  IF llm.kind = "throws" THEN Returned(TRUE)
  ELSE IF Head(llm.text) = "VIOLATION:"
       THEN Raised(GuardrailViolation(reasonOf(llm.text, "Content policy violation")), TRUE)
       ELSE Returned(TRUE)

\* String.trim(), on a text whose blank fragments are " "
trim(text) == SelectSeq(text, LAMBDA f : f # " ")

\* variant of validateExtraInstruction: the emptiness test forgets trim()
validateExtraInstructionNoTrim(instr, llm) ==
  IF instr = Null \/ instr = <<>> THEN Returned(FALSE)
  ELSE IF llm.kind = "throws" THEN Returned(TRUE)
  ELSE IF Head(llm.text) = "BLOCKED:"
       THEN Raised(GuardrailViolation(reasonOf(llm.text, "Instruction violates content policy")), TRUE)
       ELSE Returned(TRUE)

validateExtraInstruction(instr, llm) ==
  IF instr = Null \/ trim(instr) = <<>> THEN Returned(FALSE)
  ELSE IF llm.kind = "throws" THEN Returned(TRUE)
  ELSE IF Head(llm.text) = "BLOCKED:"
       THEN Raised(GuardrailViolation(reasonOf(llm.text, "Instruction violates content policy")), TRUE)
       ELSE Returned(TRUE)

\* variant of validatePlan: the LLM validation runs before the pattern check
validatePlanLlmFirst(planText, llm) ==
  LET p == patternLoop(planText, 1)
      r == llmStage(llm)
  IN  IF r.threw THEN r
      ELSE IF p # 0
      THEN Raised(GuardrailViolation(<<"Plan contains prohibited content:", PROHIBITED_PATTERNS[p].description>>), TRUE)
      ELSE r

validatePlan(planText, llm) ==
  LET p == patternLoop(planText, 1)
  IN  IF p # 0
      THEN Raised(GuardrailViolation(<<"Plan contains prohibited content:", PROHIBITED_PATTERNS[p].description>>), FALSE)
      ELSE llmStage(llm)

validateScript(scriptText, llm) ==
  LET p == patternLoop(scriptText, 1)
  IN  IF p # 0
      THEN Raised(GuardrailViolation(<<"Script contains prohibited content:", PROHIBITED_PATTERNS[p].description>>), FALSE)
      ELSE llmStage(llm)

\* ------------------------------------------------------------------ retrieval
Chunk(id, theme, similarity) == [id |-> id, theme |-> theme, similarity |-> similarity]

\* Object.keys(themeGroups): the themes in the order of their first chunk
RECURSIVE themeKeysOf(_, _)
themeKeysOf(chunks, keys) ==
  IF chunks = <<>> THEN keys
  ELSE LET t == Head(chunks).theme
       IN  themeKeysOf(Tail(chunks),
                       IF \E i \in DOMAIN keys : keys[i] = t THEN keys ELSE Append(keys, t))

\* theme names that are canonical array indices, which a plain object lists
\* first and in ascending numeric order whatever their insertion order
IntegerLikeThemes == {"2", "10"}

indexOf(key) == CASE key = "2" -> 2 [] key = "10" -> 10

\* insert key into a list of integer-like keys in ascending numeric order
RECURSIVE insertByIndex(_, _)
insertByIndex(sorted, key) ==
  IF sorted = <<>> THEN <<key>>
  ELSE IF indexOf(Head(sorted)) < indexOf(key)
       THEN <<Head(sorted)>> \o insertByIndex(Tail(sorted), key)
       ELSE <<key>> \o sorted

RECURSIVE sortByIndex(_)
sortByIndex(keys) ==
  IF keys = <<>> THEN <<>>
  ELSE insertByIndex(sortByIndex(Tail(keys)), Head(keys))

\* Object.keys(themeGroups), given the keys in the order of their insertion
objectKeys(inserted) ==
  sortByIndex(SelectSeq(inserted, LAMBDA k : k \in IntegerLikeThemes))
    \o SelectSeq(inserted, LAMBDA k : k \notin IntegerLikeThemes)

\* insert c into a list sorted by similarity descending, after its equals (stable)
RECURSIVE insertBySimilarity(_, _)
insertBySimilarity(sorted, c) ==
  IF sorted = <<>> THEN <<c>>
  ELSE IF Head(sorted).similarity >= c.similarity
       THEN <<Head(sorted)>> \o insertBySimilarity(Tail(sorted), c)
       ELSE <<c>> \o sorted

\* themeGroups[theme].sort((a, b) => b.similarity - a.similarity)
RECURSIVE sortBySimilarity(_)
sortBySimilarity(chunks) ==
  IF chunks = <<>> THEN <<>>
  ELSE insertBySimilarity(sortBySimilarity(SubSeq(chunks, 1, Len(chunks) - 1)),
                          chunks[Len(chunks)])

\* variant of themeGroup: the chunks are not told apart by theme
themeGroupAll(chunks, theme) == sortBySimilarity(chunks)

themeGroup(chunks, theme) == sortBySimilarity(SelectSeq(chunks, LAMBDA c : c.theme = theme))

removeAt(seq, i) == SubSeq(seq, 1, i - 1) \o SubSeq(seq, i + 1, Len(seq))

\* variant of roundRobin: themeIndex stays on a theme until it is exhausted
RECURSIVE roundRobinStaysOnTheme(_, _, _, _, _)
roundRobinStaysOnTheme(result, themeKeys, themeGroups, themeIndex, limit) ==
  IF ~(Len(result) < limit /\ Len(themeKeys) > 0) THEN result
  ELSE LET theme == themeKeys[themeIndex]
           themeChunks == themeGroups[theme]
           taken == themeChunks # <<>>
           result2 == IF taken THEN Append(result, Head(themeChunks)) ELSE result
           rest == IF taken THEN Tail(themeChunks) ELSE themeChunks
           groups2 == [themeGroups EXCEPT ![theme] = rest]
       IN  IF rest = <<>>
           THEN LET keys2 == removeAt(themeKeys, themeIndex)
                IN  roundRobinStaysOnTheme(result2, keys2, groups2,
                               IF themeIndex > Len(keys2) THEN 1 ELSE themeIndex, limit)
           ELSE roundRobinStaysOnTheme(result2, themeKeys, groups2, themeIndex, limit)

\* the while loop of diversifyByTheme; themeIndex is 1-based here
RECURSIVE roundRobin(_, _, _, _, _)
roundRobin(result, themeKeys, themeGroups, themeIndex, limit) ==
  IF ~(Len(result) < limit /\ Len(themeKeys) > 0) THEN result
  ELSE LET theme == themeKeys[themeIndex]
           themeChunks == themeGroups[theme]
           taken == themeChunks # <<>>
           result2 == IF taken THEN Append(result, Head(themeChunks)) ELSE result
           rest == IF taken THEN Tail(themeChunks) ELSE themeChunks
           groups2 == [themeGroups EXCEPT ![theme] = rest]
       IN  IF rest = <<>>
           THEN LET keys2 == removeAt(themeKeys, themeIndex)
                IN  roundRobin(result2, keys2, groups2,
                               IF themeIndex > Len(keys2) THEN 1 ELSE themeIndex, limit)
           ELSE roundRobin(result2, themeKeys, groups2,
                           (themeIndex % Len(themeKeys)) + 1, limit)

\* variant of diversifyByTheme: only the first theme key is drawn from
diversifyByThemeFirstKey(chunks, limit) ==
  LET themeKeys == objectKeys(themeKeysOf(chunks, <<>>))
      themes == {themeKeys[i] : i \in DOMAIN themeKeys}
      themeGroups == [t \in themes |-> themeGroup(chunks, t)]
  IN  roundRobin(<<>>, IF themeKeys = <<>> THEN <<>> ELSE <<themeKeys[1]>>,
                 themeGroups, 1, limit)

diversifyByTheme(chunks, limit) ==
  LET themeKeys == objectKeys(themeKeysOf(chunks, <<>>))
      themes == {themeKeys[i] : i \in DOMAIN themeKeys}
      themeGroups == [t \in themes |-> themeGroup(chunks, t)]
  IN  roundRobin(<<>>, themeKeys, themeGroups, 1, limit)

TOP_K_CHUNKS == 10

\* what the similarity search answers: an error, no chunk, or chunks in
\* descending similarity
SearchAnswers ==
  { [error |-> <<"network">>, chunks |-> <<>>],
    [error |-> <<>>, chunks |-> <<>>],
    [error |-> <<>>, chunks |-> <<Chunk(1, "ai", 9), Chunk(2, "ai", 8), Chunk(3, "cloud", 7)>>] }

\* createEmbedding either returns or throws a provider error
EmbeddingAnswers == {Thrown(e) : e \in ProviderErrors} \cup {Answer(<<"vector">>)}

Value(v) == [threw |-> FALSE, error |-> NoError, value |-> v]

Failure(e) == [threw |-> TRUE, error |-> e, value |-> Null]

\* a plan column or variable that holds null
NullPlan == [json |-> FALSE, empty |-> "none", titleLen |-> 0,
             keyPointsType |-> "undefined", key_points |-> 0, text |-> Null]

buildSemanticQuery(instr) ==
  <<"Create a takeaway">> \o (IF instr \in {Null, <<>>} THEN <<>> ELSE instr)

\* variant of retrieveRelevantContext: an empty search result is passed on
retrieveRelevantContextAllowsEmpty(instr, embedding, search) ==
  IF embedding.kind = "throws" THEN Failure(embedding.error)
  ELSE IF search.error # <<>>
       THEN Failure(Error(<<"Failed to retrieve context:">> \o search.error))
  ELSE Value([chunks |-> diversifyByTheme(search.chunks, TOP_K_CHUNKS),
              query |-> buildSemanticQuery(instr)])

retrieveRelevantContext(instr, embedding, search) ==
  IF embedding.kind = "throws" THEN Failure(embedding.error)
  ELSE IF search.error # <<>>
       THEN Failure(Error(<<"Failed to retrieve context:">> \o search.error))
  ELSE IF search.chunks = <<>>
       THEN Failure(Error(<<"No relevant content found for this query">>))
  ELSE Value([chunks |-> diversifyByTheme(search.chunks, TOP_K_CHUNKS),
              query |-> buildSemanticQuery(instr)])

\* ------------------------------------------------------------------ planner
\* the string field of the plan that is missing or empty, if one is
EmptyFields == {"none", "title", "framing"}

\* the planner's prompt asks for a title of at most so many characters
MaxTitleChars == 60

\* the planner's prompt asks for at most so many key points
MaxKeyPoints == 5

\* the length of a title: none when the title is missing or empty, else within
\* or beyond what the prompt asks for
titleLenOf(e, long) == IF e = "title" THEN 0 ELSE IF long THEN MaxTitleChars + 1 ELSE MaxTitleChars

\* what the planner's completion holds: text that is not JSON, or a JSON object
\* whose key_points is absent, or is a string or an array of so many entries,
\* and the text (tokens) of its fields; the objects with all string fields
\* and an array of key points come with every text, the others with one; one
\* object has a title and a list of key points longer than the prompt asks for
PlanOutputs ==
  {[json |-> FALSE, empty |-> "none", titleLen |-> 0, keyPointsType |-> "undefined",
    key_points |-> 0, text |-> <<"plain">>]}
    \cup {[json |-> TRUE, empty |-> e, titleLen |-> titleLenOf(e, FALSE),
           keyPointsType |-> "undefined", key_points |-> 0, text |-> <<"plain">>] :
             e \in EmptyFields}
    \cup {[json |-> TRUE, empty |-> e, titleLen |-> titleLenOf(e, FALSE),
           keyPointsType |-> k, key_points |-> n, text |-> <<"plain">>] :
             e \in EmptyFields, k \in {"array", "string"}, n \in {2, 3}}
    \cup {[json |-> TRUE, empty |-> "none", titleLen |-> titleLenOf("none", TRUE),
           keyPointsType |-> "array", key_points |-> MaxKeyPoints + 1,
           text |-> <<"plain">>]}
    \cup {[json |-> TRUE, empty |-> "none", titleLen |-> MaxTitleChars,
           keyPointsType |-> "array", key_points |-> n, text |-> t] :
             n \in {2, 3}, t \in Texts}

PlannerAnswers ==
  {Thrown(e) : e \in ProviderErrors}
    \cup {[kind |-> "text", error |-> NoError, text |-> o] : o \in PlanOutputs}

\* variant of validatePlanStructure: two key points are enough
validatePlanStructureTwoPoints(plan) ==
  IF plan.empty = "title" THEN Failure(Error(<<"Plan must have a non-empty title">>))
  ELSE IF plan.keyPointsType # "array" \/ plan.key_points < 2
       THEN Failure(Error(<<"Plan must have at least 3 key points">>))
  ELSE IF plan.empty = "framing" THEN Failure(Error(<<"Plan must have a non-empty framing">>))
  ELSE Value(plan)

validatePlanStructure(plan) ==
  IF plan.empty = "title" THEN Failure(Error(<<"Plan must have a non-empty title">>))
  ELSE IF plan.keyPointsType # "array" \/ plan.key_points < 3
       THEN Failure(Error(<<"Plan must have at least 3 key points">>))
  ELSE IF plan.empty = "framing" THEN Failure(Error(<<"Plan must have a non-empty framing">>))
  ELSE Value(plan)

generateTakeawayPlan(llm) ==
  LET wrap(r) == IF r.threw
                 THEN Failure(Error(<<"Failed to generate takeaway plan:">> \o r.error.message))
                 ELSE r
  IN  IF llm.kind = "throws" THEN wrap(Failure(llm.error))
      ELSE IF ~llm.text.json THEN wrap(Failure(Error(<<"Unexpected token in JSON">>)))
      ELSE IF llm.text.keyPointsType = "undefined"
           THEN wrap(Failure(Error(<<"Cannot read properties of undefined">>)))
      ELSE wrap(validatePlanStructure(llm.text))

\* JSON.stringify(plan)
planTextOf(plan) == plan.text

\* ------------------------------------------------------------ script generator
\* a completion's text after trim(); it may be empty
ScriptAnswers ==
  {Thrown(e) : e \in ProviderErrors} \cup {Answer(t) : t \in Texts \cup {<<>>}}

generateScript(llm) ==
  IF llm.kind = "throws"
  THEN Failure(Error(<<"Failed to generate script:">> \o llm.error.message))
  ELSE Value(llm.text)

\* ------------------------------------------------------------------- state
VARIABLES
  status,            \* generations.status
  retry_count,       \* generations.retry_count
  error_message,     \* generations.error_message
  rag_query,         \* generations.rag_query
  rag_chunks_used,   \* generations.rag_chunks_used
  takeaway_plan,     \* generations.takeaway_plan
  script,            \* generations.script
  output_urls,       \* generations.output_urls
  extra_instruction, \* customization.extra_instruction of the request
  pc,                \* where generateTakeaway stands
  plan,              \* generateTakeaway's local plan
  draft,             \* generateTakeaway's local script
  error,             \* the error the catch block of generateTakeaway caught
  retryCount,        \* the retry_count the catch block read
  thrown,            \* what the last call of generateTakeaway threw to its caller
  attempt,           \* number of calls of generateTakeaway so far
  phases,            \* the collaborators the current attempt has invoked, in order
  lastCheck,         \* the last guardrail check: its content, the LLM's answer, its result
  rpc,               \* where each POST /api/render/[id] request stands
  media,             \* each render request's media result
  response,          \* each render request's HTTP status
  mediaRendered,     \* number of media renderings started for the run
  callbacks          \* number of completeGeneration / failGeneration calls of the render route

dbVars == <<status, retry_count, error_message, rag_query, rag_chunks_used,
            takeaway_plan, script, output_urls>>

orchVars == <<pc, plan, draft, error, retryCount, thrown, attempt, phases, lastCheck>>

renderVars == <<rpc, media, response, mediaRendered, callbacks>>

\* one call of a function of the pipeline taken on its own
VARIABLES
  candidates,        \* diversifyByTheme's chunks argument
  topK,              \* diversifyByTheme's limit argument
  selected,          \* what diversifyByTheme returned
  checked,           \* the text handed to validatePlan / validateScript
  verdict,           \* what validatePlan / validateScript did with it
  fnpc               \* the function being called, "returned" after it, "idle" when none is

\* the credits of one user and that user's POST /api/generate requests
VARIABLES
  credits_remaining, \* users_profile.credits_remaining
  credits_used,      \* users_profile.credits_used
  granted,           \* the balance the user started with
  cost,              \* the amount passed to deductCredits
  rowLock,           \* the request holding the row lock of deduct_credits, 0 when free
  current_credits,   \* deduct_credits's local current_credits, per request
  deducted,          \* what deduct_credits returned, per request
  gpc,               \* where each POST /api/generate request stands
  gresponse,         \* each request's HTTP status
  generation         \* the status of the generation each request created, "none" when none

creditVars == <<credits_remaining, credits_used, granted, cost, rowLock, current_credits,
                deducted, gpc, gresponse, generation>>

\* the upvotes of one generation and the POST /api/upvote requests for it
VARIABLES
  upvotes,           \* the rows of upvotes for the generation: <<user_id, id>>
  upvotes_count,     \* generations.upvotes_count
  voter,             \* the user of each POST /api/upvote request
  existingUpvote,    \* the id of the row each request's select found, 0 when none
  vpc,               \* where each POST /api/upvote request stands
  vresponse          \* each request's HTTP status

voteVars == <<upvotes, upvotes_count, voter, existingUpvote, vpc, vresponse>>

\* the page of the generation in the user's browser
VARIABLES
  seen               \* generation.status in useGeneration, "none" before the first fetch

clientVars == <<seen>>

\* one call of retryWithBackoff or retryWithJitter
VARIABLES
  retryKind,         \* "backoff" or "jitter": which of the two functions is called
  maxRetries,        \* options.maxRetries
  tries,             \* the loop variable attempt
  fnCalls,           \* number of invocations of fn so far
  sleeps,            \* number of sleep() calls so far
  delay,             \* the local delay
  lastSleep,         \* the argument of the last sleep(), 0 before the first
  lastError,         \* the local lastError
  raised,            \* what the call threw to its caller
  rpos               \* where the call stands

retryVars == <<retryKind, maxRetries, tries, fnCalls, sleeps, delay, lastSleep,
               lastError, raised, rpos>>

\* one call of pollForAudioCompletion or pollForVideoCompletion
VARIABLES
  pollKind,          \* "audio" (HeyGen) or "video" (Sieve)
  pollAttempt,       \* the loop variable attempt
  jobStatus,         \* outcome of the last status check, "none" before the first
  statusChecks,      \* number of status checks (fetch) so far
  pollSleeps,        \* number of sleep(pollInterval) calls so far
  pollError,         \* the error the catch clause holds
  pollRaised,        \* what the call threw to its caller
  ppc                \* where the call stands

pollVars == <<pollKind, pollAttempt, jobStatus, statusChecks, pollSleeps, pollError,
              pollRaised, ppc>>

\* what the operations outside the generation pipeline work on
sideVars == <<creditVars, voteVars, clientVars, retryVars, pollVars>>

\* what generateTakeaway and the render route leave alone
fnVars == <<candidates, topK, selected, checked, verdict, fnpc, sideVars>>

vars == <<dbVars, extra_instruction, orchVars, renderVars, fnVars>>

\* the run and the function calls, which the other routes leave alone
pipelineVars == <<dbVars, extra_instruction, orchVars, renderVars,
                  candidates, topK, selected, checked, verdict, fnpc>>

notCreditVars == <<pipelineVars, voteVars, clientVars, retryVars, pollVars>>

notVoteVars == <<pipelineVars, creditVars, clientVars, retryVars, pollVars>>

notClientVars == <<pipelineVars, creditVars, voteVars, retryVars, pollVars>>

notRetryVars == <<pipelineVars, creditVars, voteVars, clientVars, pollVars>>

notPollVars == <<pipelineVars, creditVars, voteVars, clientVars, retryVars>>

RenderRequests == 1..MaxRenderRequests

NoMedia == [ok |-> FALSE, message |-> <<>>]

\* no instruction, an empty one, a blank one, a real one
Instructions == {Null, <<>>, <<" ">>, <<"make it inspiring">>}

NoCheck == [phase |-> "none", content |-> <<>>, llm |-> Answer(<<>>),
            threw |-> FALSE, llmCalled |-> FALSE]

Check(phase, content, llm, r) ==
  [phase |-> phase, content |-> content, llm |-> llm,
   threw |-> r.threw, llmCalled |-> r.llmCalled]

\* the generations row as POST /api/generate inserts it, nothing started yet
RunInit ==
  /\ status = "queued"
  /\ retry_count = 0
  /\ error_message = Null
  /\ rag_query = Null
  /\ rag_chunks_used = <<>>
  /\ takeaway_plan = NullPlan
  /\ script = Null
  /\ output_urls = "{}"
  /\ extra_instruction \in Instructions
  /\ pc = "idle"
  /\ plan = NullPlan
  /\ draft = Null
  /\ error = NoError
  /\ retryCount = 0
  /\ thrown = NoError
  /\ attempt = 0
  /\ phases = <<>>
  /\ lastCheck = NoCheck
  /\ rpc = [r \in RenderRequests |-> "idle"]
  /\ media = [r \in RenderRequests |-> NoMedia]
  /\ response = [r \in RenderRequests |-> 0]
  /\ mediaRendered = 0
  /\ callbacks = 0

\* no function is called on its own
FnIdle ==
  /\ candidates = <<>>
  /\ topK = 0
  /\ selected = <<>>
  /\ checked = <<>>
  /\ verdict = Returned(FALSE)
  /\ fnpc = "idle"

GenRequests == 1..MaxGenRequests

CreditsIdle ==
  /\ credits_remaining = 0
  /\ credits_used = 0
  /\ granted = 0
  /\ cost = 1
  /\ rowLock = 0
  /\ current_credits = [r \in GenRequests |-> 0]
  /\ deducted = [r \in GenRequests |-> "none"]
  /\ gpc = [r \in GenRequests |-> "done"]
  /\ gresponse = [r \in GenRequests |-> 0]
  /\ generation = [r \in GenRequests |-> "none"]

Voters == 1..MaxVoters

VoteRequests == 1..MaxVoteRequests

VotesIdle ==
  /\ upvotes = {}
  /\ upvotes_count = 0
  /\ voter = [r \in VoteRequests |-> 1]
  /\ existingUpvote = [r \in VoteRequests |-> 0]
  /\ vpc = [r \in VoteRequests |-> "done"]
  /\ vresponse = [r \in VoteRequests |-> 0]

ClientIdle == seen = "none"

RetryIdle ==
  /\ retryKind = "backoff"
  /\ maxRetries = 0
  /\ tries = 0
  /\ fnCalls = 0
  /\ sleeps = 0
  /\ delay = 0
  /\ lastSleep = 0
  /\ lastError = NoError
  /\ raised = NoError
  /\ rpos = "idle"

PollIdle ==
  /\ pollKind = "audio"
  /\ pollAttempt = 0
  /\ jobStatus = "none"
  /\ statusChecks = 0
  /\ pollSleeps = 0
  /\ pollError = NoError
  /\ pollRaised = NoError
  /\ ppc = "idle"

SideIdle == CreditsIdle /\ VotesIdle /\ ClientIdle /\ RetryIdle /\ PollIdle

Init == RunInit /\ FnIdle /\ SideIdle

\* ------------------------------------------------- writes to the generations row
updateStatus(newStatus, message) ==
  /\ status' = newStatus
  /\ error_message' = IF message # <<>> THEN message ELSE error_message

\* variant of retryGeneration: the count is written back unchanged
retryGenerationKeepsCount ==
  /\ status' = "queued"
  /\ retry_count' = retry_count

\* update({ status: 'queued', retry_count: supabase.rpc('increment', { x: 1 }) }):
\* read as the source states it, the stored count plus 1
retryGeneration ==
  /\ status' = "queued"
  /\ retry_count' = retry_count + 1

\* variant of failGeneration: only the status is written
failGenerationStatusOnly(message) ==
  /\ status' = "failed"
  /\ error_message' = error_message

failGeneration(message) ==
  /\ status' = "failed"
  /\ error_message' = message

completeGeneration(urls) ==
  /\ status' = "completed"
  /\ output_urls' = urls

\* ---------------------------------------------------------- generateTakeaway
\* the catch block takes over with the error e
Caught(e) ==
  /\ pc' = "catch"
  /\ error' = e

\* a queued run is picked up: generateTakeaway starts (step 1, first line)
StartAttempt ==
  /\ pc = "idle"
  /\ status = "queued"
  /\ updateStatus("processing", <<"Validating input...">>)
  /\ pc' = "validateExtraInstruction"
  /\ attempt' = attempt + 1
  /\ phases' = <<>>
  /\ error' = NoError
  /\ thrown' = NoError
  /\ lastCheck' = NoCheck
  /\ UNCHANGED <<retry_count, rag_query, rag_chunks_used, takeaway_plan, script,
                 output_urls, extra_instruction, fnVars, plan, draft, retryCount, renderVars>>

\* step 1: validateExtraInstruction, then the status message of step 2
ValidateInstruction ==
  /\ pc = "validateExtraInstruction"
  /\ \E llm \in ClassifierAnswers :
       LET r == validateExtraInstruction(extra_instruction, llm)
       IN  /\ lastCheck' = Check("instruction", <<>>, llm, r)
           /\ phases' = IF r.llmCalled THEN Append(phases, "classifier") ELSE phases
           /\ IF r.threw
              THEN /\ Caught(r.error)
                   /\ UNCHANGED <<status, error_message>>
              ELSE /\ updateStatus("processing", <<"Retrieving relevant content...">>)
                   /\ pc' = "retrieveRelevantContext"
                   /\ UNCHANGED error
  /\ UNCHANGED <<retry_count, rag_query, rag_chunks_used, takeaway_plan, script,
                 output_urls, extra_instruction, fnVars, plan, draft, retryCount, thrown,
                 attempt, renderVars>>

\* step 2: retrieveRelevantContext, store the query and the chunk ids, then
\* the status message of step 3
Retrieve ==
  /\ pc = "retrieveRelevantContext"
  /\ \E embedding \in EmbeddingAnswers, search \in SearchAnswers :
       LET r == retrieveRelevantContext(extra_instruction, embedding, search)
       IN  IF r.threw
           THEN /\ Caught(r.error)
                /\ UNCHANGED <<status, error_message, rag_query, rag_chunks_used>>
           ELSE /\ rag_query' = r.value.query
                /\ rag_chunks_used' = [i \in DOMAIN r.value.chunks |-> r.value.chunks[i].id]
                /\ updateStatus("processing", <<"Creating takeaway plan...">>)
                /\ pc' = "generateTakeawayPlan"
                /\ UNCHANGED error
  /\ phases' = Append(phases, "retrieval")
  /\ UNCHANGED <<retry_count, takeaway_plan, script, output_urls, extra_instruction, fnVars,
                 plan, draft, retryCount, thrown, attempt, lastCheck, renderVars>>

\* variant of GeneratePlan: the plan goes to the script generator unvalidated
GeneratePlanSkipsValidation ==
  /\ pc = "generateTakeawayPlan"
  /\ \E llm \in PlannerAnswers :
       LET r == generateTakeawayPlan(llm)
       IN  IF r.threw
           THEN /\ Caught(r.error)
                /\ UNCHANGED plan
           ELSE /\ plan' = r.value
                /\ pc' = "generateScript"
                /\ UNCHANGED error
  /\ phases' = Append(phases, "planner")
  /\ UNCHANGED <<dbVars, extra_instruction, fnVars, draft, retryCount, thrown, attempt,
                 lastCheck, renderVars>>

\* step 3: generateTakeawayPlan
GeneratePlan ==
  /\ pc = "generateTakeawayPlan"
  /\ \E llm \in PlannerAnswers :
       LET r == generateTakeawayPlan(llm)
       IN  IF r.threw
           THEN /\ Caught(r.error)
                /\ UNCHANGED plan
           ELSE /\ plan' = r.value
                /\ pc' = "validatePlan"
                /\ UNCHANGED error
  /\ phases' = Append(phases, "planner")
  /\ UNCHANGED <<dbVars, extra_instruction, fnVars, draft, retryCount, thrown, attempt,
                 lastCheck, renderVars>>

\* step 4: validatePlan, store the plan, then the status message of step 5
ValidatePlan ==
  /\ pc = "validatePlan"
  /\ \E llm \in ValidatorAnswers :
       LET r == validatePlan(planTextOf(plan), llm)
       IN  /\ lastCheck' = Check("plan", planTextOf(plan), llm, r)
           /\ phases' = IF r.llmCalled THEN Append(phases, "planValidator") ELSE phases
           /\ IF r.threw
              THEN /\ Caught(r.error)
                   /\ UNCHANGED <<status, error_message, takeaway_plan>>
              ELSE /\ takeaway_plan' = plan
                   /\ updateStatus("processing", <<"Writing script...">>)
                   /\ pc' = "generateScript"
                   /\ UNCHANGED error
  /\ UNCHANGED <<retry_count, rag_query, rag_chunks_used, script, output_urls,
                 extra_instruction, fnVars, plan, draft, retryCount, thrown, attempt, renderVars>>

\* step 5: generateScript
GenerateScript ==
  /\ pc = "generateScript"
  /\ \E llm \in ScriptAnswers :
       LET r == generateScript(llm)
       IN  IF r.threw
           THEN /\ Caught(r.error)
                /\ UNCHANGED draft
           ELSE /\ draft' = r.value
                /\ pc' = "validateScript"
                /\ UNCHANGED error
  /\ phases' = Append(phases, "scriptGenerator")
  /\ UNCHANGED <<dbVars, extra_instruction, fnVars, plan, retryCount, thrown, attempt,
                 lastCheck, renderVars>>

\* step 6: validateScript, store the script; step 7: status rendering, return
ValidateScript ==
  /\ pc = "validateScript"
  /\ \E llm \in ValidatorAnswers :
       LET r == validateScript(draft, llm)
       IN  /\ lastCheck' = Check("script", draft, llm, r)
           /\ phases' = IF r.llmCalled THEN Append(phases, "scriptValidator") ELSE phases
           /\ IF r.threw
              THEN /\ Caught(r.error)
                   /\ UNCHANGED <<status, error_message, script, plan, draft>>
              ELSE /\ script' = draft
                   /\ updateStatus("rendering", <<"Preparing to render media...">>)
                   /\ pc' = "idle"
                   /\ plan' = NullPlan
                   /\ draft' = Null
                   /\ UNCHANGED error
  /\ UNCHANGED <<retry_count, rag_query, rag_chunks_used, takeaway_plan, output_urls,
                 extra_instruction, fnVars, retryCount, thrown, attempt, renderVars>>

\* catch block: select retry_count
ReadRetryCount ==
  /\ pc = "catch"
  /\ retryCount' = retry_count
  /\ pc' = "decide"
  /\ UNCHANGED <<dbVars, extra_instruction, fnVars, plan, draft, error, thrown, attempt,
                 phases, lastCheck, renderVars>>

\* variant of shouldRetry: the budget test is off by one
shouldRetryOnceMore(e, count) == isRetriableError(e) /\ count <= MAX_RETRIES

\* isRetriableError(error) && retryCount < MAX_RETRIES
shouldRetry(e, count) == isRetriableError(e) /\ count < MAX_RETRIES

\* variant of Decide: the stored plan is cleared when an attempt ends in error
DecideClearsPlan ==
  /\ pc = "decide"
  /\ IF shouldRetry(error, retryCount)
     THEN /\ retryGeneration
          /\ thrown' = WillRetry
          /\ UNCHANGED error_message
     ELSE /\ failGeneration(error.message)
          /\ thrown' = error
          /\ UNCHANGED retry_count
  /\ pc' = "idle"
  /\ plan' = NullPlan
  /\ draft' = Null
  /\ retryCount' = 0
  /\ takeaway_plan' = NullPlan
  /\ UNCHANGED <<rag_query, rag_chunks_used, script, output_urls,
                 extra_instruction, fnVars, error, attempt, phases, lastCheck, renderVars>>

\* catch block: retry or fail, and throw
Decide ==
  /\ pc = "decide"
  /\ IF shouldRetry(error, retryCount)
     THEN /\ retryGeneration
          /\ thrown' = WillRetry
          /\ UNCHANGED error_message
     ELSE /\ failGeneration(error.message)
          /\ thrown' = error
          /\ UNCHANGED retry_count
  /\ pc' = "idle"
  /\ plan' = NullPlan
  /\ draft' = Null
  /\ retryCount' = 0
  /\ UNCHANGED <<rag_query, rag_chunks_used, takeaway_plan, script, output_urls,
                 extra_instruction, fnVars, error, attempt, phases, lastCheck, renderVars>>

\* ------------------------------------------------------ POST /api/render/[id]
\* what rendering the media and uploading it gives
MediaResults == {[ok |-> TRUE, message |-> <<>>], [ok |-> FALSE, message |-> <<"provider failed">>]}

\* select the generation, check its status and its script; the requests are
\* numbered in the order in which they arrive
RenderCheck(r) ==
  /\ rpc[r] = "idle"
  /\ \A q \in RenderRequests : q < r => rpc[q] # "idle"
  /\ IF status # "rendering" \/ script \in {Null, <<>>}
     THEN /\ rpc' = [rpc EXCEPT ![r] = "done"]
          /\ response' = [response EXCEPT ![r] = 400]
     ELSE /\ rpc' = [rpc EXCEPT ![r] = "checked"]
          /\ UNCHANGED response
  /\ UNCHANGED <<dbVars, extra_instruction, fnVars, orchVars, media, mediaRendered, callbacks>>

\* updateStatus(generationId, 'rendering', 'Rendering media...')
RenderMark(r) ==
  /\ rpc[r] = "checked"
  /\ updateStatus("rendering", <<"Rendering media...">>)
  /\ rpc' = [rpc EXCEPT ![r] = "marked"]
  /\ UNCHANGED <<retry_count, rag_query, rag_chunks_used, takeaway_plan, script,
                 output_urls, extra_instruction, fnVars, orchVars, media, response,
                 mediaRendered, callbacks>>

\* generateVideo / generatePodcast / generateSlides and the upload
RenderMedia(r) ==
  /\ rpc[r] = "marked"
  /\ \E m \in MediaResults : media' = [media EXCEPT ![r] = m]
  /\ mediaRendered' = mediaRendered + 1
  /\ rpc' = [rpc EXCEPT ![r] = "rendered"]
  /\ UNCHANGED <<dbVars, extra_instruction, fnVars, orchVars, response, callbacks>>

\* completeGeneration, or failGeneration in the inner catch
RenderFinish(r) ==
  /\ rpc[r] = "rendered"
  /\ IF media[r].ok
     THEN /\ completeGeneration("urls")
          /\ response' = [response EXCEPT ![r] = 200]
          /\ UNCHANGED error_message
     ELSE /\ failGeneration(<<"Rendering failed:">> \o media[r].message)
          /\ response' = [response EXCEPT ![r] = 500]
          /\ UNCHANGED output_urls
  /\ callbacks' = callbacks + 1
  /\ rpc' = [rpc EXCEPT ![r] = "done"]
  /\ UNCHANGED <<retry_count, rag_query, rag_chunks_used, takeaway_plan, script,
                 extra_instruction, fnVars, orchVars, media, mediaRendered>>

Next ==
  \/ StartAttempt
  \/ ValidateInstruction
  \/ Retrieve
  \/ GeneratePlan
  \/ ValidatePlan
  \/ GenerateScript
  \/ ValidateScript
  \/ ReadRetryCount
  \/ Decide
  \/ \E r \in RenderRequests : RenderCheck(r)
  \/ \E r \in RenderRequests : RenderMark(r)
  \/ \E r \in RenderRequests : RenderMedia(r)
  \/ \E r \in RenderRequests : RenderFinish(r)

Spec == Init /\ [][Next]_vars

\* ------------------------------------- validatePlan / validateScript on their own
AllTokens == {"plain"} \cup {PROHIBITED_PATTERNS[p].pattern : p \in 1..NumPatterns}

RECURSIVE ContentsOfLen(_)
ContentsOfLen(n) ==
  IF n = 0 THEN {<<>>}
  ELSE {Append(t, k) : t \in ContentsOfLen(n - 1), k \in AllTokens}

\* texts of 1..MaxContentLen tokens over every category
Contents == UNION {ContentsOfLen(n) : n \in 1..MaxContentLen}

InitPatterns ==
  /\ RunInit
  /\ extra_instruction = Null
  /\ candidates = <<>>
  /\ topK = 0
  /\ selected = <<>>
  /\ checked \in Contents
  /\ verdict = Returned(FALSE)
  /\ fnpc \in {"validatePlan", "validateScript"}
  /\ SideIdle

CheckPlan ==
  /\ fnpc = "validatePlan"
  /\ \E llm \in ValidatorAnswers : verdict' = validatePlan(checked, llm)
  /\ fnpc' = "returned"
  /\ UNCHANGED <<dbVars, extra_instruction, orchVars, renderVars,
                 candidates, topK, selected, checked, sideVars>>

CheckScript ==
  /\ fnpc = "validateScript"
  /\ \E llm \in ValidatorAnswers : verdict' = validateScript(checked, llm)
  /\ fnpc' = "returned"
  /\ UNCHANGED <<dbVars, extra_instruction, orchVars, renderVars,
                 candidates, topK, selected, checked, sideVars>>

NextPatterns == CheckPlan \/ CheckScript

SpecPatterns == InitPatterns /\ [][NextPatterns]_vars

\* ----------------------------------------------------- diversifyByTheme on its own
\* transcript_chunks.theme is free text: names and integer-like labels
Themes == {"ai", "cloud"} \cup IntegerLikeThemes

\* lists of n chunks as match_transcript_chunks returns them: distinct ids,
\* similarity not increasing
RECURSIVE CandidatesOfLen(_)
CandidatesOfLen(n) ==
  IF n = 0 THEN {<<>>}
  ELSE UNION {{Append(l, Chunk(n, t, sim)) :
                 t \in Themes,
                 sim \in {x \in 1..MaxSim : n = 1 \/ x <= l[n - 1].similarity}} :
              l \in CandidatesOfLen(n - 1)}

InitDiversify ==
  /\ RunInit
  /\ extra_instruction = Null
  /\ candidates \in UNION {CandidatesOfLen(n) : n \in 0..MaxChunks}
  /\ topK \in 0..MaxLimit
  /\ selected = <<>>
  /\ checked = <<>>
  /\ verdict = Returned(FALSE)
  /\ fnpc = "diversifyByTheme"
  /\ SideIdle

Diversify ==
  /\ fnpc = "diversifyByTheme"
  /\ selected' = diversifyByTheme(candidates, topK)
  /\ fnpc' = "returned"
  /\ UNCHANGED <<dbVars, extra_instruction, orchVars, renderVars,
                 candidates, topK, checked, verdict, sideVars>>

NextDiversify == Diversify

SpecDiversify == InitDiversify /\ [][NextDiversify]_vars

\* ------------------------------------------- POST /api/generate and the credits
InitCredits ==
  /\ RunInit
  /\ extra_instruction = Null
  /\ FnIdle
  /\ VotesIdle
  /\ ClientIdle
  /\ RetryIdle
  /\ PollIdle
  /\ credits_remaining \in 0..MaxCredits
  /\ granted = credits_remaining
  /\ credits_used = 0
  /\ cost \in 1..MaxAmount
  /\ rowLock = 0
  /\ current_credits = [r \in GenRequests |-> 0]
  /\ deducted = [r \in GenRequests |-> "none"]
  /\ gpc = [r \in GenRequests |-> "idle"]
  /\ gresponse = [r \in GenRequests |-> 0]
  /\ generation = [r \in GenRequests |-> "none"]

\* the request ends with this HTTP status
Respond(r, code) ==
  /\ gresponse' = [gresponse EXCEPT ![r] = code]
  /\ gpc' = [gpc EXCEPT ![r] = "done"]

\* steps 1-3: session and profile, feature flag, request body
GenerateStart(r) ==
  /\ gpc[r] = "idle"
  /\ \/ gpc' = [gpc EXCEPT ![r] = "deductCredits"] /\ UNCHANGED gresponse
     \/ Respond(r, 401)
     \/ Respond(r, 503)
     \/ Respond(r, 500)
  /\ UNCHANGED <<notCreditVars,
                 credits_remaining, credits_used, granted, cost, rowLock,
                 current_credits, deducted, generation>>

\* variant of DeductSelect: the row is read without taking the lock
DeductSelectNoLock(r) ==
  /\ gpc[r] = "deductCredits"
  /\ \/ /\ current_credits' = [current_credits EXCEPT ![r] = credits_remaining]
        /\ gpc' = [gpc EXCEPT ![r] = "deduct_credits"]
        /\ UNCHANGED <<gresponse, rowLock>>
     \/ /\ Respond(r, 500)
        /\ UNCHANGED <<rowLock, current_credits>>
  /\ UNCHANGED <<notCreditVars,
                 credits_remaining, credits_used, granted, cost, deducted, generation>>

\* supabase.rpc('deduct_credits'): SELECT ... FOR UPDATE waits for the row lock
\* and takes it; or the call comes back with an error and deductCredits throws
DeductSelect(r) ==
  /\ gpc[r] = "deductCredits"
  /\ \/ /\ rowLock = 0
        /\ rowLock' = r
        /\ current_credits' = [current_credits EXCEPT ![r] = credits_remaining]
        /\ gpc' = [gpc EXCEPT ![r] = "deduct_credits"]
        /\ UNCHANGED gresponse
     \/ /\ Respond(r, 500)
        /\ UNCHANGED <<rowLock, current_credits>>
  /\ UNCHANGED <<notCreditVars,
                 credits_remaining, credits_used, granted, cost, deducted, generation>>

\* the rest of deduct_credits: the check, the UPDATE, the end of the transaction
DeductUpdate(r) ==
  /\ gpc[r] = "deduct_credits"
  /\ IF current_credits[r] < cost
     THEN /\ deducted' = [deducted EXCEPT ![r] = "false"]
          /\ UNCHANGED <<credits_remaining, credits_used>>
     ELSE /\ credits_remaining' = credits_remaining - cost
          /\ credits_used' = credits_used + cost
          /\ deducted' = [deducted EXCEPT ![r] = "true"]
  /\ rowLock' = IF rowLock = r THEN 0 ELSE rowLock
  /\ gpc' = [gpc EXCEPT ![r] = "deducted"]
  /\ UNCHANGED <<notCreditVars,
                 granted, cost, current_credits, gresponse, generation>>

\* deductCredits after the rpc: it returns true, or throws
\* InsufficientCreditsError, which the catch block of POST answers with 500
DeductReturn(r) ==
  /\ gpc[r] = "deducted"
  /\ IF deducted[r] = "false"
     THEN Respond(r, 500)
     ELSE gpc' = [gpc EXCEPT ![r] = "insert"] /\ UNCHANGED gresponse
  /\ UNCHANGED <<notCreditVars,
                 credits_remaining, credits_used, granted, cost, rowLock,
                 current_credits, deducted, generation>>

\* steps 5-7: insert the generation, start processGenerationAsync, answer 200;
\* or the insert fails and the catch block answers 500
InsertGeneration(r) ==
  /\ gpc[r] = "insert"
  /\ \/ /\ generation' = [generation EXCEPT ![r] = "queued"]
        /\ Respond(r, 200)
     \/ /\ Respond(r, 500)
        /\ UNCHANGED generation
  /\ UNCHANGED <<notCreditVars,
                 credits_remaining, credits_used, granted, cost, rowLock,
                 current_credits, deducted>>

\* the run of the generation ends in failGeneration
GenerationFails(r) ==
  /\ generation[r] = "queued"
  /\ generation' = [generation EXCEPT ![r] = "failed"]
  /\ UNCHANGED <<notCreditVars,
                 credits_remaining, credits_used, granted, cost, rowLock,
                 current_credits, deducted, gpc, gresponse>>

\* the run of the generation ends in completeGeneration
GenerationCompletes(r) ==
  /\ generation[r] = "queued"
  /\ generation' = [generation EXCEPT ![r] = "completed"]
  /\ UNCHANGED <<notCreditVars,
                 credits_remaining, credits_used, granted, cost, rowLock,
                 current_credits, deducted, gpc, gresponse>>

NextCredits ==
  \/ \E r \in GenRequests : GenerateStart(r)
  \/ \E r \in GenRequests : DeductSelect(r)
  \/ \E r \in GenRequests : DeductUpdate(r)
  \/ \E r \in GenRequests : DeductReturn(r)
  \/ \E r \in GenRequests : InsertGeneration(r)
  \/ \E r \in GenRequests : GenerationFails(r)
  \/ \E r \in GenRequests : GenerationCompletes(r)

SpecCredits == InitCredits /\ [][NextCredits]_vars

\* ------------------------------------------------------------ POST /api/upvote
\* the row a request inserts has the request's number as id, the rows present
\* before the requests have the ids after those
InitUpvotes ==
  /\ RunInit
  /\ extra_instruction = Null
  /\ FnIdle
  /\ CreditsIdle
  /\ ClientIdle
  /\ RetryIdle
  /\ PollIdle
  /\ upvotes \in {{<<u, MaxVoteRequests + u>> : u \in us} : us \in SUBSET Voters}
  /\ upvotes_count = Cardinality(upvotes)
  /\ voter \in [VoteRequests -> Voters]
  /\ existingUpvote = [r \in VoteRequests |-> 0]
  /\ vpc = [r \in VoteRequests |-> "idle"]
  /\ vresponse = [r \in VoteRequests |-> 0]

VoteRespond(r, code) ==
  /\ vresponse' = [vresponse EXCEPT ![r] = code]
  /\ vpc' = [vpc EXCEPT ![r] = "done"]

\* session, profile, request body, and the generation: found, not deleted,
\* not the user's own
VoteStart(r) ==
  /\ vpc[r] = "idle"
  /\ \/ vpc' = [vpc EXCEPT ![r] = "select"] /\ UNCHANGED vresponse
     \/ VoteRespond(r, 400)
     \/ VoteRespond(r, 404)
     \/ VoteRespond(r, 500)
  /\ UNCHANGED <<notVoteVars, upvotes, upvotes_count, voter, existingUpvote>>

\* select id from upvotes where user_id, generation_id (maybeSingle)
VoteSelect(r) ==
  /\ vpc[r] = "select"
  /\ IF \E row \in upvotes : row[1] = voter[r]
     THEN /\ existingUpvote' = [existingUpvote EXCEPT ![r] =
                                 (CHOOSE row \in upvotes : row[1] = voter[r])[2]]
          /\ vpc' = [vpc EXCEPT ![r] = "delete"]
     ELSE /\ existingUpvote' = [existingUpvote EXCEPT ![r] = 0]
          /\ vpc' = [vpc EXCEPT ![r] = "insert"]
  /\ UNCHANGED <<notVoteVars, upvotes, upvotes_count, voter, vresponse>>

\* delete from upvotes where id = existingUpvote.id
VoteDelete(r) ==
  /\ vpc[r] = "delete"
  /\ upvotes' = {row \in upvotes : row[2] # existingUpvote[r]}
  /\ vpc' = [vpc EXCEPT ![r] = "decrement"]
  /\ UNCHANGED <<notVoteVars, upvotes_count, voter, existingUpvote, vresponse>>

\* rpc decrement_upvote_count, then the answer
VoteDecrement(r) ==
  /\ vpc[r] = "decrement"
  /\ upvotes_count' = IF upvotes_count - 1 > 0 THEN upvotes_count - 1 ELSE 0
  /\ VoteRespond(r, 200)
  /\ UNCHANGED <<notVoteVars, upvotes, voter, existingUpvote>>

\* insert into upvotes; unique_upvote rejects a second row of the pair, and
\* the route does not look at the error the insert returns
VoteInsert(r) ==
  /\ vpc[r] = "insert"
  /\ upvotes' = IF \E row \in upvotes : row[1] = voter[r]
                THEN upvotes
                ELSE upvotes \cup {<<voter[r], r>>}
  /\ vpc' = [vpc EXCEPT ![r] = "increment"]
  /\ UNCHANGED <<notVoteVars, upvotes_count, voter, existingUpvote, vresponse>>

\* rpc increment_upvote_count, then the answer
VoteIncrement(r) ==
  /\ vpc[r] = "increment"
  /\ upvotes_count' = upvotes_count + 1
  /\ VoteRespond(r, 200)
  /\ UNCHANGED <<notVoteVars, upvotes, voter, existingUpvote>>

NextUpvotes ==
  \/ \E r \in VoteRequests : VoteStart(r)
  \/ \E r \in VoteRequests : VoteSelect(r)
  \/ \E r \in VoteRequests : VoteDelete(r)
  \/ \E r \in VoteRequests : VoteDecrement(r)
  \/ \E r \in VoteRequests : VoteInsert(r)
  \/ \E r \in VoteRequests : VoteIncrement(r)

SpecUpvotes == InitUpvotes /\ [][NextUpvotes]_vars

\* ------------------------------------------------- the generation page's polling
isTerminalStatus(s) == s \in {"completed", "failed"}

\* poll(): fetchGeneration, and again after 2 seconds while the status the
\* page holds is not terminal
Poll ==
  /\ ~isTerminalStatus(seen)
  /\ seen' = status
  /\ UNCHANGED notClientVars

InitClient ==
  /\ RunInit
  /\ extra_instruction = Null
  /\ FnIdle
  /\ CreditsIdle
  /\ VotesIdle
  /\ RetryIdle
  /\ PollIdle
  /\ seen = "none"

\* the run, the render route and the page
NextClient == Next \/ Poll

\* the steps the server takes once it has been called
ServerSteps ==
  \/ StartAttempt
  \/ ValidateInstruction
  \/ Retrieve
  \/ GeneratePlan
  \/ ValidatePlan
  \/ GenerateScript
  \/ ValidateScript
  \/ ReadRetryCount
  \/ Decide
  \/ \E r \in RenderRequests : RenderMark(r)
  \/ \E r \in RenderRequests : RenderMedia(r)
  \/ \E r \in RenderRequests : RenderFinish(r)

\* a started handler runs to its end and the page keeps polling; the arrival of
\* a render request (RenderCheck) is up to whoever sends one
SpecClient ==
  InitClient /\ [][NextClient]_vars /\ WF_vars(ServerSteps) /\ WF_vars(Poll)

\* --------------------------------------------- retryWithBackoff / retryWithJitter
initialDelay == 1000

maxDelay == 10000

backoffMultiplier == 2

min(a, b) == IF a < b THEN a ELSE b

\* maxRetries may be any number the caller passes, -1 included
InitRetry ==
  /\ RunInit
  /\ extra_instruction = Null
  /\ FnIdle
  /\ CreditsIdle
  /\ VotesIdle
  /\ ClientIdle
  /\ PollIdle
  /\ retryKind \in {"backoff", "jitter"}
  /\ maxRetries \in -1..MaxRetriesOption
  /\ tries = 0
  /\ fnCalls = 0
  /\ sleeps = 0
  /\ delay = initialDelay
  /\ lastSleep = 0
  /\ lastError = NoError
  /\ raised = NoError
  /\ rpos = "for"

\* for (let attempt = 0; attempt <= maxRetries; attempt++), and the throw after
\* the loop
RetryLoop ==
  /\ rpos = "for"
  /\ IF tries <= maxRetries
     THEN rpos' = "fn" /\ UNCHANGED raised
     ELSE rpos' = "threw" /\ raised' = lastError
  /\ UNCHANGED <<notRetryVars, retryKind, maxRetries, tries, fnCalls, sleeps, delay,
                 lastSleep, lastError>>

\* return await fn(): fn returns, or throws an error and the catch clause is
\* entered
RetryCall ==
  /\ rpos = "fn"
  /\ fnCalls' = fnCalls + 1
  /\ \E outcome \in {NoError} \cup {Error(e) : e \in ProviderErrors} :
       IF outcome = NoError
       THEN rpos' = "returned" /\ UNCHANGED lastError
       ELSE rpos' = "catch" /\ lastError' = outcome
  /\ UNCHANGED <<notRetryVars, retryKind, maxRetries, tries, sleeps, delay, lastSleep,
                 raised>>

\* variant of RetryCatch: the error's kind is not looked at
RetryCatchAnyError ==
  /\ rpos = "catch"
  /\ IF tries = maxRetries
     THEN rpos' = "threw" /\ raised' = lastError
     ELSE rpos' = "sleep" /\ UNCHANGED raised
  /\ UNCHANGED <<notRetryVars, retryKind, maxRetries, tries, fnCalls, sleeps, delay,
                 lastSleep, lastError>>

\* the catch clause up to the sleep: rethrow on the last attempt or on an error
\* that is not retriable
RetryCatch ==
  /\ rpos = "catch"
  /\ IF tries = maxRetries \/ ~isRetriableError(lastError)
     THEN rpos' = "threw" /\ raised' = lastError
     ELSE rpos' = "sleep" /\ UNCHANGED raised
  /\ UNCHANGED <<notRetryVars, retryKind, maxRetries, tries, fnCalls, sleeps, delay,
                 lastSleep, lastError>>

\* await sleep(...), the new delay, and attempt++; the jitter is
\* Math.random() * delay * 0.5, as whole milliseconds
RetrySleep ==
  /\ rpos = "sleep"
  /\ sleeps' = sleeps + 1
  /\ IF retryKind = "backoff"
     THEN /\ lastSleep' = delay
          /\ delay' = min(delay * backoffMultiplier, maxDelay)
     ELSE /\ \E jitter \in {0, delay \div 4} : lastSleep' = min(delay + jitter, maxDelay)
          /\ delay' = delay * backoffMultiplier
  /\ tries' = tries + 1
  /\ rpos' = "for"
  /\ UNCHANGED <<notRetryVars, retryKind, maxRetries, fnCalls, lastError, raised>>

NextRetry == RetryLoop \/ RetryCall \/ RetryCatch \/ RetrySleep

\* fn settles and the timers fire: a call that can take a step takes it
SpecRetry == InitRetry /\ [][NextRetry]_vars /\ WF_vars(NextRetry)

\* ------------------------------ pollForAudioCompletion / pollForVideoCompletion
maxAttempts == 60

providerOf(kind) == IF kind = "audio" THEN "HeyGen" ELSE "Sieve"

\* what one status check can find: the HTTP answer is not ok, the job is still
\* being worked on, it is done with or without a URL, or it has failed
StatusAnswers == {"not ok", "processing", "completed", "completed without url", "failed"}

JobFailed(kind) == MediaRenderError(<<providerOf(kind), kind, "generation failed">>)

InitPoll ==
  /\ RunInit
  /\ extra_instruction = Null
  /\ FnIdle
  /\ CreditsIdle
  /\ VotesIdle
  /\ ClientIdle
  /\ RetryIdle
  /\ pollKind \in {"audio", "video"}
  /\ pollAttempt = 0
  /\ jobStatus = "none"
  /\ statusChecks = 0
  /\ pollSleeps = 0
  /\ pollError = NoError
  /\ pollRaised = NoError
  /\ ppc = "for"

\* for (let attempt = 0; attempt < maxAttempts; attempt++), and the timeout
\* error after the loop
PollLoop ==
  /\ ppc = "for"
  /\ IF pollAttempt < maxAttempts
     THEN ppc' = "try" /\ UNCHANGED pollRaised
     ELSE ppc' = "threw" /\ pollRaised' = MediaRenderError(<<providerOf(pollKind), pollKind,
                                                         "generation timeout">>)
  /\ UNCHANGED <<notPollVars, pollKind, pollAttempt, jobStatus, statusChecks,
                 pollSleeps, pollError>>

\* the body of the try block up to its sleep: the status check and what is
\* made of its answer; every throw in it lands in the catch clause
PollCheck ==
  /\ ppc = "try"
  /\ statusChecks' = statusChecks + 1
  /\ \E answer \in StatusAnswers :
       /\ jobStatus' = answer
       /\ CASE answer = "not ok" ->
                 ppc' = "catch" /\ pollError' = Error(<<providerOf(pollKind), "status check failed">>)
            [] answer = "completed" ->
                 ppc' = "returned" /\ UNCHANGED pollError
            [] answer = "completed without url" ->
                 /\ ppc' = "catch"
                 /\ pollError' = MediaRenderError(<<"No", pollKind,
                                                    "URL in completed response">>)
            [] answer = "failed" ->
                 ppc' = "catch" /\ pollError' = JobFailed(pollKind)
            [] OTHER ->
                 ppc' = "sleep" /\ UNCHANGED pollError
  /\ UNCHANGED <<notPollVars, pollKind, pollAttempt, pollSleeps, pollRaised>>

\* catch (error): rethrown on the last attempt only, else logged and slept after
PollCatch ==
  /\ ppc = "catch"
  /\ IF pollAttempt = maxAttempts - 1
     THEN ppc' = "threw" /\ pollRaised' = pollError
     ELSE ppc' = "sleep" /\ UNCHANGED pollRaised
  /\ UNCHANGED <<notPollVars, pollKind, pollAttempt, jobStatus, statusChecks,
                 pollSleeps, pollError>>

\* await sleep(pollInterval) and attempt++
PollSleep ==
  /\ ppc = "sleep"
  /\ pollSleeps' = pollSleeps + 1
  /\ pollAttempt' = pollAttempt + 1
  /\ ppc' = "for"
  /\ UNCHANGED <<notPollVars, pollKind, jobStatus, statusChecks, pollError, pollRaised>>

NextPoll == PollLoop \/ PollCheck \/ PollCatch \/ PollSleep

SpecPoll == InitPoll /\ [][NextPoll]_vars

\* ================================================================ properties
\* the step of the catch block that retries or fails the run
DecideStep == pc = "decide" /\ pc' = "idle"

HasProhibitedPattern(text) == \E p \in 1..NumPatterns : patternTest(p, text)

\* C1: the persisted status changes only along queued -> processing,
\* processing -> rendering, processing -> queued, processing -> failed,
\* rendering -> completed and rendering -> failed.
StatusSteps ==
  { <<"queued", "processing">>, <<"processing", "rendering">>,
    <<"processing", "queued">>, <<"processing", "failed">>,
    <<"rendering", "completed">>, <<"rendering", "failed">> }

C1_StatusChangesOnlyAlongSteps ==
  [][status' # status => <<status, status'>> \in StatusSteps]_vars

\* C2: a GuardrailViolation is never retried: whatever its reason text and
\* whatever retry_count, the run goes to failed and retry_count stays.
C2_GuardrailViolationNeverRetried ==
  [][(DecideStep /\ error.name = "GuardrailViolation")
       => (status' = "failed" /\ retry_count' = retry_count)]_vars

\* C3: whenever the status is rendering, the script column is non-null, holds
\* no text a prohibited pattern matches, and is the script on which the last
\* validateScript call returned without raising.
C3_RenderingHasCleanScript ==
  status = "rendering" =>
    /\ script # Null
    /\ ~HasProhibitedPattern(script)
    /\ lastCheck.phase = "script"
    /\ lastCheck.content = script
    /\ ~lastCheck.threw

C3_Witness ==
  status = "rendering" /\ retry_count > 0 /\ script # <<>> /\ callbacks = 0

C7_RenderCallbackOnce == callbacks <= 1 /\ mediaRendered <= 1

\* C8: when validateExtraInstruction raises a GuardrailViolation, the attempt
\* invokes no retrieval, planner or script generator, the status becomes
\* failed with the reason as message, and plan and script are not populated.
C8_BlockedInstructionFailsEmpty ==
  [][(DecideStep /\ lastCheck.phase = "instruction" /\ lastCheck.threw)
       => /\ \A i \in DOMAIN phases :
               phases[i] \notin {"retrieval", "planner", "scriptGenerator"}
          /\ status' = "failed"
          /\ error_message' = error.message
          /\ takeaway_plan' = NullPlan
          /\ script' = Null]_vars

\* C9: when a prohibited pattern matches the plan text or the script text,
\* the check raises the pattern's GuardrailViolation without issuing the LLM
\* validation call, whatever that call would have answered.
C9_PatternBlocksBeforeLlm ==
  [][(\/ pc = "validatePlan" /\ pc' # pc /\ HasProhibitedPattern(planTextOf(plan))
      \/ pc = "validateScript" /\ pc' # pc /\ HasProhibitedPattern(draft))
       => /\ pc' = "catch"
          /\ error'.name = "GuardrailViolation"
          /\ error'.message[1] = (IF pc = "validatePlan"
                                  THEN "Plan contains prohibited content:"
                                  ELSE "Script contains prohibited content:")
          /\ ~lastCheck'.llmCalled
          /\ phases' = phases]_vars

C9_Witness ==
  /\ lastCheck.phase = "plan"
  /\ HasProhibitedPattern(lastCheck.content)
  /\ lastCheck.llm = Answer(<<"APPROVED">>)
  /\ lastCheck.threw
  /\ ~lastCheck.llmCalled
  /\ pc = "catch"

\* C10: when the LLM validation call of validatePlan or validateScript throws
\* and no prohibited pattern matches, the check returns normally and the run
\* goes on to the next phase; it does not become failed or queued.
C10_LlmFailureFailsOpen ==
  [][(/\ pc \in {"validatePlan", "validateScript"}
      /\ pc' # pc
      /\ lastCheck'.llm.kind = "throws"
      /\ ~HasProhibitedPattern(lastCheck'.content))
       => /\ ~lastCheck'.threw
          /\ lastCheck'.llmCalled
          /\ IF pc = "validatePlan"
             THEN pc' = "generateScript" /\ status' = "processing" /\ takeaway_plan' = plan
             ELSE pc' = "idle" /\ status' = "rendering" /\ script' = draft]_vars

C10_Witness ==
  /\ lastCheck.phase = "script"
  /\ lastCheck.llm.kind = "throws"
  /\ lastCheck.llmCalled
  /\ ~lastCheck.threw
  /\ status = "rendering"
  /\ callbacks = 0

\* C11: validateExtraInstruction on a null, empty or blank instruction returns
\* without a classifier call; on any other instruction it makes exactly one
\* classifier call, raises a GuardrailViolation when the answer starts with
\* BLOCKED, and returns normally on any other answer or when the call throws.
C11_InstructionCheck ==
  [][(pc = "validateExtraInstruction" /\ pc' # pc)
       => IF extra_instruction \in {Null, <<>>, <<" ">>}
          THEN /\ ~lastCheck'.llmCalled
               /\ phases' = phases
               /\ pc' = "retrieveRelevantContext"
          ELSE /\ lastCheck'.llmCalled
               /\ phases' = Append(phases, "classifier")
               /\ IF lastCheck'.llm.kind = "text" /\ Head(lastCheck'.llm.text) = "BLOCKED:"
                  THEN /\ pc' = "catch"
                       /\ error'.name = "GuardrailViolation"
                  ELSE /\ pc' = "retrieveRelevantContext"
                       /\ error' = NoError]_vars

C11_Witness ==
  /\ extra_instruction = <<" ">>
  /\ pc = "retrieveRelevantContext"
  /\ lastCheck.phase = "instruction"
  /\ ~lastCheck.llmCalled

\* the category of the first token of the text that some pattern matches
RECURSIVE firstTextualMatch(_)
firstTextualMatch(text) ==
  IF text = <<>> THEN 0
  ELSE IF \E p \in 1..NumPatterns : PROHIBITED_PATTERNS[p].pattern = Head(text)
       THEN CHOOSE p \in 1..NumPatterns : PROHIBITED_PATTERNS[p].pattern = Head(text)
       ELSE firstTextualMatch(Tail(text))

\* the first category of the list that has a match somewhere in the text
firstListedMatch(text) ==
  CHOOSE p \in 1..NumPatterns :
    patternTest(p, text) /\ \A q \in 1..(p - 1) : ~patternTest(q, text)

\* C12 as stated: content with matches of some of the five categories, in any
\* textual order, is always blocked, and the category reported is that of the
\* first match met when scanning the content.
C12_ReportsFirstTextualMatch ==
  (fnpc = "returned" /\ HasProhibitedPattern(checked)) =>
    /\ verdict.threw
    /\ verdict.error.name = "GuardrailViolation"
    /\ verdict.error.message[2] = PROHIBITED_PATTERNS[firstTextualMatch(checked)].description

\* C12 as amended: such content is always blocked, without the LLM call, and
\* the category reported is the first one of PROHIBITED_PATTERNS that has a
\* match anywhere in the content, whatever the textual order of the matches.
C12_ReportsFirstListedMatch ==
  (fnpc = "returned" /\ HasProhibitedPattern(checked)) =>
    /\ verdict.threw
    /\ verdict.error.name = "GuardrailViolation"
    /\ ~verdict.llmCalled
    /\ verdict.error.message[2] = PROHIBITED_PATTERNS[firstListedMatch(checked)].description

C12_Witness ==
  /\ fnpc = "returned"
  /\ checked = <<"guarantee", "plain", "quarter">>
  /\ verdict.threw
  /\ verdict.error.message[2] = "Quarterly projections"

\* what generateTakeawayPlan says when the model's output is malformed
MalformedPlanMessages ==
  {<<"Unexpected token in JSON">>, <<"Cannot read properties of undefined">>,
   <<"Plan must have a non-empty title">>, <<"Plan must have at least 3 key points">>,
   <<"Plan must have a non-empty framing">>}

\* C13: a failure of the plan or script generator caused by malformed model
\* output (unparsable JSON, a missing or empty field, fewer than 3 key points,
\* an empty completion) is retried: while retry_count is below MAX_RETRIES the
\* run returns to queued, and it fails only once the budget is used up.
C13_MalformedOutputIsRetried ==
  [][/\ (DecideStep /\ \E m \in MalformedPlanMessages :
                         error.message = <<"Failed to generate takeaway plan:">> \o m)
          => IF retry_count < MAX_RETRIES
             THEN status' = "queued" /\ retry_count' = retry_count + 1
             ELSE status' = "failed"
     /\ (pc = "generateScript" /\ pc' = "validateScript") => draft' # <<>>]_vars

NoChunksError == Error(<<"No relevant content found for this query">>)

\* C14: when the similarity search returns zero chunks, retrieveRelevantContext
\* raises an error, the attempt does not go on to the planner, and the catch
\* block moves the run to failed with retry_count unchanged, whatever
\* retry_count is.
C14_NoChunksFailsWithoutRetry ==
  [][/\ \A instr \in Instructions :
          retrieveRelevantContext(instr, Answer(<<"vector">>),
                                  [error |-> <<>>, chunks |-> <<>>]) = Failure(NoChunksError)
     /\ (pc = "retrieveRelevantContext" /\ pc' = "generateTakeawayPlan")
          => rag_chunks_used' # <<>>
     /\ (DecideStep /\ error = NoChunksError)
          => /\ status' = "failed"
             /\ retry_count' = retry_count
             /\ error_message' = NoChunksError.message
             /\ thrown' = NoChunksError]_vars

C14_Witness ==
  /\ status = "failed"
  /\ thrown = NoChunksError
  /\ error_message = NoChunksError.message
  /\ retry_count = MAX_RETRIES - 1
  /\ phases = <<"retrieval">>

Invoked(phase) == \E i \in DOMAIN phases : phases[i] = phase

\* C15: when an attempt ends in error, by failGeneration or by
\* retryGeneration, what earlier phases stored is kept: the query and the chunk
\* ids once retrieval has passed, and the plan as well once plan validation has
\* passed; the catch block leaves rag_query, rag_chunks_used, takeaway_plan and
\* script as they are.
C15_PartialResultsKept ==
  [][DecideStep
       => /\ UNCHANGED <<rag_query, rag_chunks_used, takeaway_plan, script>>
          /\ Invoked("planner")
               => /\ rag_query' = buildSemanticQuery(extra_instruction)
                  /\ rag_chunks_used' # <<>>
          /\ Invoked("scriptGenerator")
               => /\ takeaway_plan' = plan
                  /\ takeaway_plan' # NullPlan]_vars

C15_Witness ==
  /\ pc = "idle"
  /\ status = "queued"
  /\ thrown = WillRetry
  /\ Invoked("scriptGenerator")
  /\ takeaway_plan # NullPlan
  /\ rag_chunks_used # <<>>

\* the place of each collaborator in the pipeline
phaseRank(phase) ==
  CASE phase = "classifier" -> 1
    [] phase = "retrieval" -> 2
    [] phase = "planner" -> 3
    [] phase = "planValidator" -> 4
    [] phase = "scriptGenerator" -> 5
    [] phase = "scriptValidator" -> 6

lastPhase == phases[Len(phases)]

topicsOf(chunks) == {chunks[i].theme : i \in DOMAIN chunks}

\* the naive top-K cut of a list
topKCut(chunks, limit) ==
  SubSeq(chunks, 1, IF limit < Len(chunks) THEN limit ELSE Len(chunks))

\* C17: when the candidates hold at least 3 distinct topics and the limit is
\* at least 3, the output of diversifyByTheme holds chunks of at least 3
\* distinct topics.
C17_ThreeTopics ==
  (fnpc = "returned" /\ Cardinality(topicsOf(candidates)) >= 3 /\ topK >= 3)
    => Cardinality(topicsOf(selected)) >= 3

C17_Witness ==
  /\ fnpc = "returned"
  /\ topK = 3
  /\ Len(candidates) = MaxChunks
  /\ candidates[1].theme = candidates[2].theme
  /\ Cardinality(topicsOf(candidates)) = 3
  /\ Cardinality(topicsOf(selected)) = 3

\* C18: the output of diversifyByTheme holds at least as many distinct topics
\* as the first `limit` candidates of the similarity-ordered input.
C18_NoWorseThanTopK ==
  fnpc = "returned"
    => Cardinality(topicsOf(selected)) >= Cardinality(topicsOf(topKCut(candidates, topK)))

C18_Witness ==
  /\ fnpc = "returned"
  /\ topK = 2
  /\ Cardinality(topicsOf(topKCut(candidates, topK))) = 1
  /\ Cardinality(topicsOf(selected)) = 2

\* C19: the topics are visited in the order in which they first appear in the
\* candidate list: the topics of the output, in order of first appearance, are
\* the leading topics of the candidate list in order of first appearance.
C19_TopicsInFirstSeenOrder ==
  fnpc = "returned"
    => LET firstSeen == themeKeysOf(candidates, <<>>)
           visited == themeKeysOf(selected, <<>>)
       IN  /\ Len(visited) <= Len(firstSeen)
           /\ visited = SubSeq(firstSeen, 1, Len(visited))

\* key_points is a list of at least 3 entries
hasThreeKeyPoints(p) == p.keyPointsType = "array" /\ p.key_points >= 3

\* C20: generateTakeawayPlan fails for every model output whose key_points is
\* not a list or has fewer than 3 entries, so only a plan with a list of at
\* least 3 key points is handed to validatePlan, is stored, or reaches the
\* script generator, whatever the guardrail answers.
C20_ShortPlanNeverPasses ==
  /\ pc = "generateTakeawayPlan"
       => \A o \in PlanOutputs :
            (o.json /\ ~hasThreeKeyPoints(o)) => generateTakeawayPlan(Answer(o)).threw
  /\ pc \in {"validatePlan", "generateScript", "validateScript"} => hasThreeKeyPoints(plan)
  /\ takeaway_plan # NullPlan => hasThreeKeyPoints(takeaway_plan)
  /\ (pc \in {"catch", "decide"} /\ ~hasThreeKeyPoints(plan))
       => /\ lastCheck.phase \notin {"plan", "script"}
          /\ ~Invoked("planValidator")
          /\ ~Invoked("scriptGenerator")

C20_Witness ==
  /\ pc = "idle"
  /\ status = "failed"
  /\ error_message = <<"Failed to generate takeaway plan:", "Plan must have at least 3 key points">>
  /\ phases = <<"retrieval", "planner">>
  /\ takeaway_plan = NullPlan

\* a plan as the TakeawayPlan contract describes it
wellFormedPlan(p) ==
  /\ p.json
  /\ p.empty = "none"
  /\ p.titleLen \in 1..MaxTitleChars
  /\ p.keyPointsType = "array"
  /\ p.key_points \in 3..MaxKeyPoints

\* C21: every plan that generateTakeawayPlan returns, and every plan stored on
\* a run, has a non-empty title of at most 60 characters, a non-empty hook,
\* framing and call-to-action, and between 3 and 5 key points.
C21_PlanWellFormed ==
  /\ pc \in {"validatePlan", "generateScript", "validateScript"} => wellFormedPlan(plan)
  /\ takeaway_plan # NullPlan => wellFormedPlan(takeaway_plan)

\* the requests whose deductCredits call succeeded
Succeeded == {r \in GenRequests : deducted[r] = "true"}

\* C22: under any interleaving of concurrent deductCredits calls for one
\* user, credits_remaining never becomes negative, the calls that succeed
\* take no more than the initial balance between them, and each successful
\* call lowers credits_remaining and raises credits_used by exactly the amount.
C22_CreditsNeverNegative ==
  /\ credits_remaining >= 0
  /\ Cardinality(Succeeded) * cost <= granted
  /\ credits_used = Cardinality(Succeeded) * cost
  /\ credits_remaining = granted - Cardinality(Succeeded) * cost

C22_Witness ==
  /\ granted = MaxCredits
  /\ cost = MaxAmount
  /\ \E r, q \in GenRequests : deducted[r] = "true" /\ deducted[q] = "false"
  /\ credits_remaining = granted - cost

\* C23: a POST /api/generate request by a user whose credits_remaining is
\* below the cost answers 402, creates no generation, starts no processing
\* and leaves the credits as they were.
C23_InsufficientCreditsAnswers402 ==
  \A r \in GenRequests :
    (gpc[r] = "done" /\ deducted[r] = "false")
      => /\ gresponse[r] = 402
         /\ generation[r] = "none"
         /\ credits_remaining + credits_used = granted

\* C24: when a generation ends in status failed, the credit deducted for it is
\* refunded: once no request and no run is under way, the credits used are
\* those of the generations that did not fail.
C24_FailedGenerationRefunded ==
  (\A r \in GenRequests : gpc[r] = "done" /\ generation[r] \in {"failed", "completed"})
    => credits_used = Cardinality({r \in GenRequests : generation[r] = "completed"}) * cost

\* C25: once every POST /api/upvote request has been answered, whatever
\* their interleaving, upvotes_count is the number of upvote rows of the
\* generation, and there is at most one row per user.
C25_UpvoteCountMatchesRows ==
  /\ \A row, other \in upvotes : row[1] = other[1] => row = other
  /\ (\A r \in VoteRequests : vpc[r] = "done") => upvotes_count = Cardinality(upvotes)

\* the render route has taken the request up: it found the run in rendering
Accepted(r) == rpc[r] \in {"checked", "marked", "rendered"} \/ response[r] \in {200, 500}

\* C26: the page polls the status and calls POST /api/render/[id] when the
\* script is ready: a run whose status becomes rendering is eventually
\* submitted for rendering and eventually reaches completed or failed.
C26_RenderingIsRendered ==
  /\ (status = "rendering") ~> (\E r \in RenderRequests : Accepted(r))
  /\ (status = "rendering") ~> isTerminalStatus(status)

\* C27: completed and failed are absorbing: once the stored status is
\* completed or failed, no step of generateTakeaway, of its error path or of
\* the render route changes it, however render requests and attempts interleave.
C27_TerminalStatusAbsorbing ==
  [][isTerminalStatus(status) => status' = status]_vars

C29_RetryBoundedAndEnds ==
  /\ [](/\ fnCalls <= (IF maxRetries >= 0 THEN maxRetries + 1 ELSE 0)
        /\ rpos = "returned" => fnCalls = tries + 1 /\ sleeps = tries /\ raised = NoError
        /\ (rpos = "threw" /\ maxRetries >= 0)
             => /\ raised = lastError
                /\ raised # NoError
                /\ fnCalls = tries + 1
                /\ sleeps = tries
                /\ ~isRetriableError(lastError) \/ fnCalls = maxRetries + 1)
  /\ [][/\ (rpos = "catch" /\ ~isRetriableError(lastError))
            => rpos' = "threw" /\ raised' = lastError /\ fnCalls' = fnCalls
                 /\ sleeps' = sleeps
        /\ rpos \in {"returned", "threw"} => UNCHANGED retryVars]_vars
  /\ <>(rpos \in {"returned", "threw"})

C29_Witness ==
  /\ rpos = "threw"
  /\ retryKind = "jitter"
  /\ maxRetries = MaxRetriesOption
  /\ fnCalls = 2
  /\ sleeps = 1
  /\ ~isRetriableError(raised)

\* C30: in pollForAudioCompletion and pollForVideoCompletion, when a status
\* check reports the job as failed, polling stops at that attempt: the
\* MediaRenderError is raised to the caller with no further status check and
\* no sleep.
C30_FailedJobStopsPolling ==
  [][(ppc = "catch" /\ jobStatus = "failed")
       => /\ ppc' = "threw"
          /\ pollRaised' = JobFailed(pollKind)
          /\ statusChecks' = statusChecks
          /\ pollSleeps' = pollSleeps]_vars

====
